---- MODULE Spec2Model ----
(***************************************************************************)
(* Model of monitor_chzzk.py: one invocation loads the configuration and   *)
(* the persisted state, runs process_streamer for every configured         *)
(* streamer (fetch, event detection, notification sends, in-memory state   *)
(* update), saves the state file and exits.  The scheduler then invokes    *)
(* the program again.                                                      *)
(*                                                                         *)
(* Python values: None is the string "None" for string-valued fields and   *)
(* NoneInt for the viewer count; a dict is a function from its keys.       *)
(***************************************************************************)
EXTENDS Integers, Sequences, FiniteSets, TLC

\* ---- bounds of the model ------------------------------------------------
MaxViewers == 2
MaxThreshold == 2

\* ---- Python values ------------------------------------------------------
None == "None"
NoneInt == 0 - 1
EmptyDict == [k \in {} |-> None]

\* truthiness of an optional string: None and "" are falsy
Truthy(x) == x # None /\ x # ""
\* x or y
Or(x, y) == IF Truthy(x) THEN x ELSE y

\* d.get(k) for the string, bool, number and list valued keys
GetStr(d, k) == IF k \in DOMAIN d THEN d[k] ELSE None
GetBool(d, k) == IF k \in DOMAIN d THEN d[k] ELSE FALSE
GetInt(d, k) == IF k \in DOMAIN d THEN d[k] ELSE NoneInt
GetList(d, k) == IF k \in DOMAIN d THEN d[k] ELSE <<>>

Range(s) == {s[i] : i \in DOMAIN s}

Min(S) == CHOOSE x \in S : \A y \in S : x <= y
Max(S) == CHOOSE x \in S : \A y \in S : x >= y

RECURSIVE SortedSet(_)
\* sorted(S) for a set of integers
SortedSet(S) == IF S = {} THEN <<>> ELSE <<Min(S)>> \o SortedSet(S \ {Min(S)})

RECURSIVE Descending(_)
Descending(S) == IF S = {} THEN <<>> ELSE <<Max(S)>> \o Descending(S \ {Max(S)})

RECURSIVE Insert(_, _)
Insert(x, s) ==
    IF s = <<>> THEN <<x>>
    ELSE IF x < Head(s) THEN <<x>> \o s
    ELSE <<Head(s)>> \o Insert(x, Tail(s))

RECURSIVE Sorted(_)
\* sorted(s) for a list of integers (duplicates kept)
Sorted(s) == IF s = <<>> THEN <<>> ELSE Insert(Head(s), Sorted(Tail(s)))

\* ---- inputs -------------------------------------------------------------
Titles == {None, "", "A", "B"}
Categories == {None, "", "X", "Y"}
ViewerCounts == {NoneInt} \cup (0 .. MaxViewers)

\* what fetch_live_info can return: a full snapshot, or the offline default
Observations ==
    [is_live : BOOLEAN, title : Titles, category : Categories, viewers : ViewerCounts]
        \cup {[is_live |-> FALSE]}

\* viewer_thresholds as written in config.yaml: the first n thresholds,
\* unsorted and with duplicates
RawThresholdLists == {Descending(1 .. n) \o SortedSet(1 .. n) : n \in 0 .. MaxThreshold}

ChannelIds == {"ch1"}
Webhooks == {"hook1"}

StreamerEntries ==
    [channel_id : ChannelIds \cup {None}, webhook_url : Webhooks \cup {None}]

Configs ==
    [viewer_thresholds : RawThresholdLists,
     streamers : {<<e>> : e \in StreamerEntries}]

\* ---- state --------------------------------------------------------------
VARIABLES
    cfg,        \* contents of config.yaml
    file,       \* contents of state.json: channel id -> persisted channel state
    mpc,        \* position of main
    thresholds, \* main's normalised threshold list
    state,      \* main's in-memory state dict
    pc,         \* per streamer task: position in process_streamer
    current,    \* per task: the fetched observation
    last,       \* per task: state.get(streamer_key, {})
    new_state,  \* per task
    events,     \* per task: the detected events
    idx,        \* per task: position of the send loop in events
    sent,       \* per task: messages posted to the webhook in this invocation
    liveLog,    \* per channel: first, previous and latest liveness event emitted
    session,    \* per channel, for the live session in progress: the thresholds
                \* reached by a live observation and the threshold_cross events
                \* emitted per threshold
    \* save_state in steps, and invocations that are killed
    tmp,        \* contents of state.json.tmp
    writes,     \* how often this invocation has replaced state.json
    preRun,     \* contents of state.json when this invocation started
    earlier,    \* the observation of the previous invocations and the messages
                \* they posted while it stayed the same
    failedEnd,  \* per channel: the latest end event came from a total fetch failure
    \* timed and failing sends, exit status
    now,        \* the clock
    wake,       \* per task: when its sleep is over
    lastPost,   \* per webhook: time of the latest post
    minGap,     \* per webhook: the smallest time between two successive posts
    outcomes,   \* per task: the outcome of each post
    exitCode,   \* exit status of the invocation
    \* fetch_live_info in steps
    fpc,        \* position of fetch_live_info
    resps,      \* what the three endpoints answer
    tried,      \* the requests issued, in order
    result      \* the observation returned

killVars == <<tmp, writes, preRun, earlier, failedEnd>>
runVars == <<now, wake, lastPost, minGap, outcomes, exitCode>>
fetchVars == <<fpc, resps, tried, result>>
aux == <<killVars, runVars, fetchVars>>

vars == <<cfg, file, mpc, thresholds, state, pc, current, last, new_state,
          events, idx, sent, liveLog, session, aux>>

\* cfg.get("streamers", [])
Tasks == IF "streamers" \in DOMAIN cfg THEN DOMAIN cfg.streamers ELSE {}

NoLive == [first |-> "none", prev |-> "none", cur |-> "none"]
NoSession == [reached |-> {}, crosses |-> [th \in 1 .. MaxThreshold |-> 0]]

\* ---- event detection (process_streamer, lines 252-305) -------------------
\* variant: the title and category of the observation are not carried over the
\* previous ones, and the viewer count is
InitialNewState_ViewersCarried(cur, lst) ==
    [is_live |-> GetBool(cur, "is_live"),
     title |-> GetStr(cur, "title"),
     category |-> GetStr(cur, "category"),
     viewers |-> IF GetInt(cur, "viewers") # NoneInt
                 THEN GetInt(cur, "viewers") ELSE GetInt(lst, "viewers"),
     passed_thresholds |-> GetList(lst, "passed_thresholds")]

InitialNewState(cur, lst) ==
    [is_live |-> GetBool(cur, "is_live"),
     title |-> Or(GetStr(cur, "title"), GetStr(lst, "title")),
     category |-> Or(GetStr(cur, "category"), GetStr(lst, "category")),
     viewers |-> GetInt(cur, "viewers"),
     passed_thresholds |-> GetList(lst, "passed_thresholds")]

\* variant: start whenever the observation is live
LivenessEvents_StartWhenLive(cur, lst) ==
    IF GetBool(cur, "is_live") THEN <<[type |-> "start"]>>
    ELSE IF GetBool(lst, "is_live") THEN <<[type |-> "end"]>> ELSE <<>>

LivenessEvents(cur, lst) ==
    IF GetBool(lst, "is_live")
    THEN IF ~GetBool(cur, "is_live") THEN <<[type |-> "end"]>> ELSE <<>>
    ELSE IF GetBool(cur, "is_live") THEN <<[type |-> "start"]>> ELSE <<>>

\* variant: the title is compared also when the stream was not live before
TitleChanged_AnyPrevious(cur, lst) ==
    /\ GetBool(cur, "is_live")
    /\ Truthy(GetStr(cur, "title"))
    /\ GetStr(cur, "title") # GetStr(lst, "title")

TitleChanged(cur, lst) ==
    /\ GetBool(cur, "is_live") /\ GetBool(lst, "is_live")
    /\ Truthy(GetStr(cur, "title"))
    /\ GetStr(cur, "title") # GetStr(lst, "title")

CategoryChanged(cur, lst) ==
    /\ GetBool(cur, "is_live") /\ GetBool(lst, "is_live")
    /\ Truthy(GetStr(cur, "category"))
    /\ GetStr(cur, "category") # GetStr(lst, "category")

\* variant: the category change is appended before the title change
ChangeEvents_Swapped(cur, lst) ==
    (IF CategoryChanged(cur, lst) THEN <<[type |-> "category_change"]>> ELSE <<>>)
        \o (IF TitleChanged(cur, lst) THEN <<[type |-> "title_change"]>> ELSE <<>>)

ChangeEvents(cur, lst) ==
    (IF TitleChanged(cur, lst) THEN <<[type |-> "title_change"]>> ELSE <<>>)
        \o (IF CategoryChanged(cur, lst) THEN <<[type |-> "category_change"]>> ELSE <<>>)

HasStart(evs) == \E i \in DOMAIN evs : evs[i].type = "start"

\* variant: the passed list is not reset on a start
PassedBefore_NoReset(cur, lst) == GetList(lst, "passed_thresholds")

\* the passed list the threshold detection starts from
PassedBefore(cur, lst) ==
    IF HasStart(LivenessEvents(cur, lst)) THEN <<>> ELSE GetList(lst, "passed_thresholds")

\* variant: thresholds already passed are not filtered out
ToPass_NoPassedCheck(cur, lst, ths) ==
    LET viewers == GetInt(cur, "viewers")
    IN  IF GetBool(cur, "is_live") /\ viewers # NoneInt
        THEN SelectSeq(ths, LAMBDA th : viewers >= th)
        ELSE <<>>

ToPass(cur, lst, ths) ==
    LET viewers == GetInt(cur, "viewers")
        passed == Range(PassedBefore(cur, lst))
    IN  IF GetBool(cur, "is_live") /\ viewers # NoneInt
        THEN SelectSeq(ths, LAMBDA th : viewers >= th /\ th \notin passed)
        ELSE <<>>

ThresholdEvents(cur, lst, ths) ==
    LET srt == Sorted(ToPass(cur, lst, ths))
    IN  [i \in DOMAIN srt |-> [type |-> "threshold_cross", threshold |-> srt[i]]]

DetectEvents(cur, lst, ths) ==
    LivenessEvents(cur, lst) \o ChangeEvents(cur, lst) \o ThresholdEvents(cur, lst, ths)

\* variant: the thresholds crossed in this step are not recorded
DetectState_CrossNotRecorded(cur, lst, ths) ==
    LET ns0 == InitialNewState(cur, lst)
    IN  IF HasStart(LivenessEvents(cur, lst))
        THEN [ns0 EXCEPT !.passed_thresholds = <<>>]
        ELSE ns0

\* variant: the passed list is reset whenever the observation is not live
DetectState_ResetOnEnd(cur, lst, ths) ==
    LET ns0 == InitialNewState(cur, lst)
        to_pass == ToPass(cur, lst, ths)
        ns2 == IF HasStart(LivenessEvents(cur, lst)) \/ ~GetBool(cur, "is_live")
               THEN [ns0 EXCEPT !.passed_thresholds = <<>>]
               ELSE ns0
    IN  IF to_pass # <<>>
        THEN [ns2 EXCEPT !.passed_thresholds =
                            SortedSet(Range(ns2.passed_thresholds) \cup Range(to_pass))]
        ELSE ns2

DetectState(cur, lst, ths) ==
    LET ns0 == InitialNewState(cur, lst)
        ns1 == [ns0 EXCEPT
                  !.title = IF TitleChanged(cur, lst) THEN GetStr(cur, "title") ELSE @,
                  !.category = IF CategoryChanged(cur, lst) THEN GetStr(cur, "category") ELSE @]
        ns2 == IF HasStart(LivenessEvents(cur, lst))
               THEN [ns1 EXCEPT
                       !.title = Or(GetStr(cur, "title"), ns1.title),
                       !.category = Or(GetStr(cur, "category"), ns1.category),
                       !.passed_thresholds = <<>>]
               ELSE ns1
        to_pass == ToPass(cur, lst, ths)
    IN  IF to_pass # <<>>
        THEN [ns2 EXCEPT !.passed_thresholds =
                            SortedSet(Range(ns2.passed_thresholds) \cup Range(to_pass))]
        ELSE ns2

\* ---- notification (format_discord_message, send_discord_message) ---------
\* the content line and the embed's description depend on the event type and
\* the threshold; the icon stands for the content line
Icon(type) ==
    CASE type = "start" -> "red_circle"
      [] type = "end" -> "black_circle"
      [] type = "title_change" -> "arrows"
      [] type = "category_change" -> "wrench"
      [] type = "threshold_cross" -> "party"
      [] OTHER -> "plain"

format_discord_message(ev, cur) ==
    [content |-> Icon(ev.type),
     threshold |-> GetInt(ev, "threshold"),
     viewers |-> GetInt(cur, "viewers")]

\* ---- main ----------------------------------------------------------------
NormaliseThresholds(raw) == SortedSet(Range(raw))

\* the parts of the state a specification does not exercise stay as they are
NoTmp == [exists |-> FALSE, complete |-> FALSE, data |-> EmptyDict]

KillIdle ==
    /\ tmp = NoTmp /\ writes = 0 /\ preRun = EmptyDict
    /\ earlier = "untracked" /\ failedEnd = "untracked"
RunIdle ==
    /\ now = 0 /\ wake = "untimed" /\ lastPost = "untimed" /\ minGap = "untimed"
    /\ outcomes = "untracked" /\ exitCode = "untracked"
FetchIdle ==
    /\ fpc = "idle" /\ resps = <<>> /\ tried = <<>> /\ result = EmptyDict

Init ==
    /\ cfg \in Configs
    /\ file = EmptyDict
    /\ mpc = "load"
    /\ thresholds = <<>>
    /\ state = EmptyDict
    /\ pc = [i \in DOMAIN cfg.streamers |-> "new"]
    /\ current = [i \in DOMAIN cfg.streamers |-> EmptyDict]
    /\ last = [i \in DOMAIN cfg.streamers |-> EmptyDict]
    /\ new_state = [i \in DOMAIN cfg.streamers |-> EmptyDict]
    /\ events = [i \in DOMAIN cfg.streamers |-> <<>>]
    /\ idx = [i \in DOMAIN cfg.streamers |-> 1]
    /\ sent = [i \in DOMAIN cfg.streamers |-> <<>>]
    /\ liveLog = [c \in ChannelIds |-> NoLive]
    /\ session = [c \in ChannelIds |-> NoSession]
    /\ KillIdle /\ RunIdle /\ FetchIdle

\* main, lines 321-331: load_config, threshold normalisation, load_state
Load ==
    /\ mpc = "load"
    /\ thresholds' = NormaliseThresholds(cfg.viewer_thresholds)
    /\ state' = file
    /\ mpc' = "gather"
    /\ UNCHANGED <<cfg, file, pc, current, last, new_state, events, idx, sent, liveLog, session>>
    /\ UNCHANGED aux

\* main, lines 333-336: the tasks are created and started
Gather ==
    /\ mpc = "gather"
    /\ \A i \in Tasks : pc[i] = "new"
    /\ pc' = [i \in Tasks |->
                IF Truthy(cfg.streamers[i].channel_id) THEN "fetch" ELSE "done"]
    /\ UNCHANGED <<cfg, file, mpc, thresholds, state, current, last, new_state,
                   events, idx, sent, liveLog, session>>
    /\ UNCHANGED aux

LogLive(log, evs) ==
    IF evs # <<>> /\ evs[1].type \in {"start", "end"}
    THEN [first |-> IF log.first = "none" THEN evs[1].type ELSE log.first,
          prev |-> log.cur,
          cur |-> evs[1].type]
    ELSE log

Cross(th) == [type |-> "threshold_cross", threshold |-> th]

\* the record of the live session: a start event opens a new one
LogSession(ses, cur, evs, ths) ==
    LET base == IF HasStart(evs) THEN NoSession ELSE ses
        viewers == GetInt(cur, "viewers")
    IN  [reached |-> base.reached \cup
                       {th \in Range(ths) :
                          GetBool(cur, "is_live") /\ viewers # NoneInt /\ viewers >= th},
         crosses |-> [th \in 1 .. MaxThreshold |->
                        IF Cross(th) \in Range(evs) /\ base.crosses[th] < 2
                        THEN base.crosses[th] + 1 ELSE base.crosses[th]]]

\* process_streamer, lines 251-309: the fetch has completed with observation o
\* and the events are detected, up to the first send
DetectStep(i, o) ==
    /\ mpc = "gather"
    /\ pc[i] = "fetch"
    /\ LET key == cfg.streamers[i].channel_id
           lst == IF key \in DOMAIN state THEN state[key] ELSE EmptyDict
           evs == DetectEvents(o, lst, thresholds)
       IN  /\ current' = [current EXCEPT ![i] = o]
           /\ last' = [last EXCEPT ![i] = lst]
           /\ events' = [events EXCEPT ![i] = evs]
           /\ new_state' = [new_state EXCEPT ![i] = DetectState(o, lst, thresholds)]
           /\ liveLog' = [liveLog EXCEPT ![key] = LogLive(@, evs)]
           /\ session' = [session EXCEPT ![key] = LogSession(@, o, evs, thresholds)]
           /\ pc' = [pc EXCEPT ![i] =
                       IF Truthy(cfg.streamers[i].webhook_url) /\ evs # <<>>
                       THEN "send" ELSE "persist"]
    /\ idx' = [idx EXCEPT ![i] = 1]
    /\ UNCHANGED <<cfg, file, mpc, thresholds, state, sent>>

Detect(i) ==
    /\ \E o \in Observations : DetectStep(i, o)
    /\ UNCHANGED aux

\* process_streamer, lines 310-312: one message is formatted and posted
Send(i) ==
    /\ pc[i] = "send"
    /\ sent' = [sent EXCEPT ![i] =
                  Append(@, format_discord_message(events[i][idx[i]], current[i]))]
    /\ pc' = [pc EXCEPT ![i] = "sleep"]
    /\ UNCHANGED <<cfg, file, mpc, thresholds, state, current, last, new_state,
                   events, idx, liveLog, session>>
    /\ UNCHANGED aux

\* process_streamer, line 314 and the loop's next iteration
Sleep(i) ==
    /\ pc[i] = "sleep"
    /\ idx' = [idx EXCEPT ![i] = @ + 1]
    /\ pc' = [pc EXCEPT ![i] = IF idx[i] < Len(events[i]) THEN "send" ELSE "persist"]
    /\ UNCHANGED <<cfg, file, mpc, thresholds, state, current, last, new_state,
                   events, sent, liveLog, session>>
    /\ UNCHANGED aux

\* variant: the dict is rebuilt with the one key
StoreUpdate_OnlyKey(st, key, ns) == [k \in {key} |-> ns]

\* state[streamer_key] = new_state
StoreUpdate(st, key, ns) ==
    [k \in DOMAIN st \cup {key} |-> IF k = key THEN ns ELSE st[k]]

\* process_streamer, line 317, and the return: the task's locals are gone
Persist(i) ==
    /\ pc[i] = "persist"
    /\ state' = StoreUpdate(state, cfg.streamers[i].channel_id, new_state[i])
    /\ pc' = [pc EXCEPT ![i] = "done"]
    /\ current' = [current EXCEPT ![i] = EmptyDict]
    /\ last' = [last EXCEPT ![i] = EmptyDict]
    /\ new_state' = [new_state EXCEPT ![i] = EmptyDict]
    /\ events' = [events EXCEPT ![i] = <<>>]
    /\ idx' = [idx EXCEPT ![i] = 1]
    /\ UNCHANGED <<cfg, file, mpc, thresholds, sent, liveLog, session>>
    /\ UNCHANGED aux

\* main, lines 336-338: gather returns, save_state, the process exits
SaveStep ==
    /\ mpc = "gather"
    /\ \A i \in Tasks : pc[i] = "done"
    /\ file' = state
    /\ mpc' = "exited"
    /\ UNCHANGED <<cfg, thresholds, state, pc, current, last, new_state, events,
                   idx, sent, liveLog, session>>

Save ==
    /\ SaveStep
    /\ UNCHANGED aux

\* the schedule starts the next invocation: a fresh process
InvokeStep ==
    /\ mpc = "exited"
    /\ mpc' = "load"
    /\ thresholds' = <<>>
    /\ state' = EmptyDict
    /\ pc' = [i \in Tasks |-> "new"]
    /\ current' = [i \in Tasks |-> EmptyDict]
    /\ last' = [i \in Tasks |-> EmptyDict]
    /\ new_state' = [i \in Tasks |-> EmptyDict]
    /\ events' = [i \in Tasks |-> <<>>]
    /\ idx' = [i \in Tasks |-> 1]
    /\ sent' = [i \in Tasks |-> <<>>]
    /\ UNCHANGED <<cfg, file, liveLog, session>>

Invoke ==
    /\ InvokeStep
    /\ UNCHANGED aux

Next ==
    \/ Load
    \/ Gather
    \/ \E i \in Tasks : Detect(i)
    \/ \E i \in Tasks : Send(i)
    \/ \E i \in Tasks : Sleep(i)
    \/ \E i \in Tasks : Persist(i)
    \/ Save
    \/ Invoke

Spec == Init /\ [][Next]_vars

\* ---- invocations that can be killed, save_state in steps -------------------
STATE_FILE == "state.json"

\* variant: the state is dumped into the store file itself
TmpPath_SamePath(path) == path

\* path.with_suffix(".json.tmp") of a path that ends in .json
TmpPath(path) == path \o ".tmp"

DefaultObs == [is_live |-> FALSE]

\* the observations of the killed runs: a fixed title and category
KillObservations ==
    [is_live : BOOLEAN, title : {"A"}, category : {"X"}, viewers : 0 .. 1]
        \cup {DefaultObs}

\* an entry left in the store by a streamer that is no longer configured
StaleEntry ==
    [is_live |-> TRUE, title |-> "B", category |-> "Y", viewers |-> 1,
     passed_thresholds |-> <<1>>]

KillConfigs ==
    [viewer_thresholds : RawThresholdLists,
     streamers : {<<[channel_id |-> "ch1", webhook_url |-> "hook1"]>>}]

KillInit ==
    /\ cfg \in KillConfigs
    /\ file \in {EmptyDict, [k \in {"gone"} |-> StaleEntry]}
    /\ mpc = "load"
    /\ thresholds = <<>>
    /\ state = EmptyDict
    /\ pc = [i \in DOMAIN cfg.streamers |-> "new"]
    /\ current = [i \in DOMAIN cfg.streamers |-> EmptyDict]
    /\ last = [i \in DOMAIN cfg.streamers |-> EmptyDict]
    /\ new_state = [i \in DOMAIN cfg.streamers |-> EmptyDict]
    /\ events = [i \in DOMAIN cfg.streamers |-> <<>>]
    /\ idx = [i \in DOMAIN cfg.streamers |-> 1]
    /\ sent = [i \in DOMAIN cfg.streamers |-> <<>>]
    /\ liveLog = [c \in ChannelIds |-> NoLive]
    /\ session = [c \in ChannelIds |-> NoSession]
    /\ tmp = NoTmp /\ writes = 0 /\ preRun = file
    /\ earlier = [obs |-> EmptyDict, msgs |-> {}]
    /\ failedEnd = [c \in ChannelIds |-> FALSE]
    /\ RunIdle /\ FetchIdle

\* the detection, with the record of the observation kept across invocations
KillDetect(i) ==
    /\ \E o \in KillObservations :
         /\ DetectStep(i, o)
         /\ earlier' = IF o = earlier.obs THEN earlier ELSE [obs |-> o, msgs |-> {}]
         /\ failedEnd' = [failedEnd EXCEPT ![cfg.streamers[i].channel_id] =
                             IF \E k \in DOMAIN events'[i] : events'[i][k].type = "end"
                             THEN o = DefaultObs ELSE @]
    /\ UNCHANGED <<tmp, writes, preRun, runVars, fetchVars>>

\* save_state, lines 181-182: the file to dump into is opened for writing
SaveOpen ==
    /\ mpc = "gather"
    /\ \A i \in Tasks : pc[i] = "done"
    /\ IF TmpPath(STATE_FILE) = STATE_FILE
       THEN file' = EmptyDict /\ tmp' = tmp
       ELSE file' = file /\ tmp' = [exists |-> TRUE, complete |-> FALSE, data |-> EmptyDict]
    /\ mpc' = "dump"
    /\ UNCHANGED <<cfg, thresholds, state, pc, current, last, new_state, events,
                   idx, sent, liveLog, session>>
    /\ UNCHANGED <<writes, preRun, earlier, failedEnd, runVars, fetchVars>>

\* save_state, line 183: json.dump has written the whole state
SaveDump ==
    /\ mpc = "dump"
    /\ IF TmpPath(STATE_FILE) = STATE_FILE
       THEN file' = state /\ tmp' = tmp
       ELSE file' = file /\ tmp' = [exists |-> TRUE, complete |-> TRUE, data |-> state]
    /\ mpc' = "replace"
    /\ UNCHANGED <<cfg, thresholds, state, pc, current, last, new_state, events,
                   idx, sent, liveLog, session>>
    /\ UNCHANGED <<writes, preRun, earlier, failedEnd, runVars, fetchVars>>

\* save_state, line 184: the rename, and the process exits
SaveReplace ==
    /\ mpc = "replace"
    /\ IF TmpPath(STATE_FILE) = STATE_FILE
       THEN file' = file /\ tmp' = tmp
       ELSE file' = tmp.data /\ tmp' = NoTmp
    /\ writes' = writes + 1
    /\ mpc' = "exited"
    /\ UNCHANGED <<cfg, thresholds, state, pc, current, last, new_state, events,
                   idx, sent, liveLog, session>>
    /\ UNCHANGED <<preRun, earlier, failedEnd, runVars, fetchVars>>

\* the process is killed from outside, wherever it is
Kill ==
    /\ mpc \in {"load", "gather", "dump", "replace"}
    /\ mpc' = "exited"
    /\ UNCHANGED <<cfg, file, thresholds, state, pc, current, last, new_state, events,
                   idx, sent, liveLog, session, aux>>

\* the next invocation; what the ended one has posted is remembered
KillInvoke ==
    /\ InvokeStep
    /\ preRun' = file
    /\ writes' = 0
    /\ earlier' = [earlier EXCEPT !.msgs = @ \cup UNION {Range(sent[i]) : i \in Tasks}]
    /\ UNCHANGED <<tmp, failedEnd, runVars, fetchVars>>

KillNext ==
    \/ Load
    \/ Gather
    \/ \E i \in Tasks : KillDetect(i)
    \/ \E i \in Tasks : Send(i)
    \/ \E i \in Tasks : Sleep(i)
    \/ \E i \in Tasks : Persist(i)
    \/ SaveOpen
    \/ SaveDump
    \/ SaveReplace
    \/ Kill
    \/ KillInvoke

SpecKill == KillInit /\ [][KillNext]_vars

\* ---- one invocation with two streamers, timed sends that can fail ----------
\* asyncio.sleep(1)
SEND_DELAY == 1

RunChannelIds == {"ch1", "ch2"}
RunWebhooks == {"hook1", "hook2"}

\* config.yaml does not exist: load_config raises
MissingConfig == [missing |-> TRUE]

\* two streamers; the second may repeat the channel or the webhook of the first
RunConfigs ==
    [viewer_thresholds : {<<1>>},
     streamers : {<<[channel_id |-> "ch1", webhook_url |-> "hook1"], e>> :
                    e \in [channel_id : RunChannelIds, webhook_url : RunWebhooks]
                            \ {[channel_id |-> "ch1", webhook_url |-> "hook1"]}}]
        \cup {MissingConfig, EmptyDict, [viewer_thresholds |-> <<1>>]}

LiveEntry ==
    [is_live |-> TRUE, title |-> "A", category |-> "X", viewers |-> 0,
     passed_thresholds |-> <<>>]

RunObservations ==
    {DefaultObs, [is_live |-> TRUE, title |-> "B", category |-> "X", viewers |-> 1]}

\* send_discord_message: a status below 400, a status >= 400, an exception
PostOutcomes == {"ok", "http_error", "exception"}

RunInit ==
    /\ cfg \in RunConfigs
    /\ file \in {EmptyDict, [k \in {"ch1"} |-> LiveEntry]}
    /\ mpc = "load"
    /\ thresholds = <<>>
    /\ state = EmptyDict
    /\ pc = [i \in Tasks |-> "new"]
    /\ current = [i \in Tasks |-> EmptyDict]
    /\ last = [i \in Tasks |-> EmptyDict]
    /\ new_state = [i \in Tasks |-> EmptyDict]
    /\ events = [i \in Tasks |-> <<>>]
    /\ idx = [i \in Tasks |-> 1]
    /\ sent = [i \in Tasks |-> <<>>]
    /\ liveLog = [c \in RunChannelIds |-> NoLive]
    /\ session = [c \in RunChannelIds |-> NoSession]
    /\ tmp = NoTmp /\ writes = 0 /\ preRun = file
    /\ earlier = "untracked" /\ failedEnd = "untracked"
    /\ now = 0
    /\ wake = [i \in Tasks |-> 0]
    /\ lastPost = [h \in RunWebhooks |-> NoneInt]
    /\ minGap = [h \in RunWebhooks |-> NoneInt]
    /\ outcomes = [i \in Tasks |-> <<>>]
    /\ exitCode = NoneInt
    /\ FetchIdle

\* variant: an empty configuration is used like any other
ConfigUsable_Always(c) == TRUE

\* main, line 322: a configuration that is not empty
ConfigUsable(c) == c # EmptyDict

\* main, lines 321-331; without a usable configuration the process exits with 1
RunLoad ==
    /\ mpc = "load"
    /\ IF cfg = MissingConfig \/ ~ConfigUsable(cfg)
       THEN /\ mpc' = "exited"
            /\ exitCode' = 1
            /\ UNCHANGED <<thresholds, state>>
       ELSE /\ mpc' = "gather"
            /\ thresholds' = NormaliseThresholds(GetList(cfg, "viewer_thresholds"))
            /\ state' = file
            /\ UNCHANGED exitCode
    /\ UNCHANGED <<cfg, file, pc, current, last, new_state, events, idx, sent,
                   liveLog, session>>
    /\ UNCHANGED <<killVars, now, wake, lastPost, minGap, outcomes, fetchVars>>

RunDetect(i) ==
    /\ \E o \in RunObservations : DetectStep(i, o)
    /\ UNCHANGED aux

\* variant: a failed post ends the loop
AfterPost_AbortOnFailure(outcome) == IF outcome = "ok" THEN "sleep" ELSE "persist"

\* send_discord_message returns normally whatever the outcome, the sleep follows
AfterPost(outcome) == "sleep"

\* the time between this post and the latest one to the same webhook
Gap(h) == IF lastPost[h] = NoneInt THEN NoneInt ELSE now - lastPost[h]

\* process_streamer, lines 310-314: one message is posted, the sleep begins
RunSend(i) ==
    /\ pc[i] = "send"
    /\ \E out \in PostOutcomes :
         /\ outcomes' = [outcomes EXCEPT ![i] = Append(@, out)]
         /\ pc' = [pc EXCEPT ![i] = AfterPost(out)]
    /\ sent' = [sent EXCEPT ![i] =
                  Append(@, format_discord_message(events[i][idx[i]], current[i]))]
    /\ LET h == cfg.streamers[i].webhook_url
       IN  /\ minGap' = [minGap EXCEPT ![h] =
                            IF Gap(h) # NoneInt /\ (@ = NoneInt \/ Gap(h) < @)
                            THEN Gap(h) ELSE @]
           /\ lastPost' = [lastPost EXCEPT ![h] = now]
    /\ wake' = [wake EXCEPT ![i] = now + SEND_DELAY]
    /\ UNCHANGED <<cfg, file, mpc, thresholds, state, current, last, new_state,
                   events, idx, liveLog, session>>
    /\ UNCHANGED <<killVars, now, exitCode, fetchVars>>

\* process_streamer, line 314: the sleep is over
RunSleep(i) ==
    /\ now >= wake[i]
    /\ Sleep(i)

\* time passes while a task sleeps
Tick ==
    /\ \E i \in Tasks : pc[i] = "sleep" /\ wake[i] > now
    /\ now' = now + 1
    /\ UNCHANGED <<cfg, file, mpc, thresholds, state, pc, current, last, new_state,
                   events, idx, sent, liveLog, session>>
    /\ UNCHANGED <<killVars, wake, lastPost, minGap, outcomes, exitCode, fetchVars>>

\* main, lines 336-338 and the normal end of the process
RunSave ==
    /\ SaveStep
    /\ writes' = writes + 1
    /\ exitCode' = 0
    /\ UNCHANGED <<tmp, preRun, earlier, failedEnd>>
    /\ UNCHANGED <<now, wake, lastPost, minGap, outcomes, fetchVars>>

RunNext ==
    \/ RunLoad
    \/ Gather
    \/ \E i \in Tasks : RunDetect(i)
    \/ \E i \in Tasks : RunSend(i)
    \/ \E i \in Tasks : RunSleep(i)
    \/ Tick
    \/ \E i \in Tasks : Persist(i)
    \/ RunSave

\* the event loop runs every task that can run, and every request ends within
\* its timeout
SpecRun == RunInit /\ [][RunNext]_vars /\ WF_vars(RunNext)

\* ---- fetch_live_info in steps ---------------------------------------------
\* the three endpoints, in the order of the code
Endpoints == <<"live-detail", "channel", "live-status">>

\* str.upper() on the status strings that occur
Upper(x) ==
    CASE x = "close" -> "CLOSE"
      [] x = "active" -> "ACTIVE"
      [] OTHER -> x

\* a or b for numbers: None and 0 are falsy
OrInt(a, b) == IF a # NoneInt /\ a # 0 THEN a ELSE b

\* what an endpoint can answer: no answer (network error, timeout), or an HTTP
\* status with a body that parses into a content dict or does not
Answers(contents) ==
    {[kind |-> "error", code |-> 0, parse_ok |-> FALSE, content |-> EmptyDict]}
        \cup [kind : {"http"}, code : {404}, parse_ok : {TRUE}, content : {EmptyDict}]
        \cup [kind : {"http"}, code : {200}, parse_ok : {FALSE}, content : {EmptyDict}]
        \cup [kind : {"http"}, code : {200}, parse_ok : {TRUE}, content : contents]

LiveDetailContents ==
    [status : {None, "OPEN", "close"}, liveTitle : {None, "A"},
     liveCategoryValue : {"", "X"}, liveCategory : {None, "x"},
     concurrentUserCount : {NoneInt, 0, 1}, watcherCount : {NoneInt, 2}]

ChannelContents == {EmptyDict, [openLive |-> TRUE], [openLive |-> FALSE]}

LiveStatusContents == {EmptyDict} \cup [status : {"ACTIVE", "active", "INACTIVE"}]

\* variant: any HTTP answer with a parseable body is taken
Succeeds_AnyStatus(r) == r.kind = "http" /\ r.parse_ok

\* resp.status == 200 and the body is read without an exception
Succeeds(r) == r.kind = "http" /\ r.code = 200 /\ r.parse_ok

\* lines 84-100
FromLiveDetail(content) ==
    LET status == GetStr(content, "status")
    IN  [is_live |-> Truthy(status) /\ Upper(status) \notin {"CLOSE", "ENDED", "IDLE"},
         title |-> GetStr(content, "liveTitle"),
         category |-> Or(GetStr(content, "liveCategoryValue"), GetStr(content, "liveCategory")),
         viewers |-> OrInt(GetInt(content, "concurrentUserCount"),
                           GetInt(content, "watcherCount")),
         status |-> status]

\* lines 111-120
FromChannel(content) ==
    [is_live |-> GetBool(content, "openLive"),
     title |-> None, category |-> None, viewers |-> NoneInt, status |-> None]

\* lines 130-140
FromLiveStatus(content) ==
    LET status == GetStr(content, "status")
    IN  [is_live |-> Truthy(status) /\ Upper(status) = "ACTIVE",
         title |-> None, category |-> None, viewers |-> NoneInt, status |-> status]

FetchInit ==
    /\ cfg = EmptyDict /\ file = EmptyDict /\ mpc = "idle" /\ thresholds = <<>>
    /\ state = EmptyDict /\ pc = <<>> /\ current = <<>> /\ last = <<>>
    /\ new_state = <<>> /\ events = <<>> /\ idx = <<>> /\ sent = <<>>
    /\ liveLog = <<>> /\ session = <<>>
    /\ KillIdle /\ RunIdle
    /\ fpc = "live-detail"
    /\ resps \in [live_detail : Answers(LiveDetailContents),
                   channel : Answers(ChannelContents),
                   live_status : Answers(LiveStatusContents)]
    /\ tried = <<>>
    /\ result = EmptyDict

FetchUnchanged ==
    UNCHANGED <<cfg, file, mpc, thresholds, state, pc, current, last, new_state,
                events, idx, sent, liveLog, session, killVars, runVars, resps>>

\* lines 78-103
AttemptLiveDetail ==
    /\ fpc = "live-detail"
    /\ tried' = Append(tried, "live-detail")
    /\ IF Succeeds(resps.live_detail)
       THEN fpc' = "returned" /\ result' = FromLiveDetail(resps.live_detail.content)
       ELSE fpc' = "channel" /\ result' = result
    /\ FetchUnchanged

\* lines 105-122
AttemptChannel ==
    /\ fpc = "channel"
    /\ tried' = Append(tried, "channel")
    /\ IF Succeeds(resps.channel)
       THEN fpc' = "returned" /\ result' = FromChannel(resps.channel.content)
       ELSE fpc' = "live-status" /\ result' = result
    /\ FetchUnchanged

\* lines 124-145
AttemptLiveStatus ==
    /\ fpc = "live-status"
    /\ tried' = Append(tried, "live-status")
    /\ fpc' = "returned"
    /\ result' = IF Succeeds(resps.live_status)
                 THEN FromLiveStatus(resps.live_status.content)
                 ELSE DefaultObs
    /\ FetchUnchanged

FetchNext == AttemptLiveDetail \/ AttemptChannel \/ AttemptLiveStatus

SpecFetch == FetchInit /\ [][FetchNext]_vars

\* ---- properties ----------------------------------------------------------
\* a detection step of task i is in view: its locals hold the previous state,
\* the observation, the events and the next state
Stepped(i) == pc[i] \in {"send", "sleep", "persist"}

HasType(evs, t) == \E k \in DOMAIN evs : evs[k].type = t
CrossedIn(evs) == {evs[k].threshold : k \in {j \in DOMAIN evs : evs[j].type = "threshold_cross"}}
PrevLive(i) == GetBool(last[i], "is_live")
ObsLive(i) == GetBool(current[i], "is_live")
PrevPassed(i) == Range(GetList(last[i], "passed_thresholds"))
\* the configured thresholds the observation of task i meets
Met(i) ==
    {th \in Range(thresholds) :
       GetInt(current[i], "viewers") # NoneInt /\ GetInt(current[i], "viewers") >= th}

\* C1 as stated: no step emits a threshold_cross for a threshold that is in the
\* previous state's passed_thresholds at the start of the step.
C1_NoCrossOfPassed ==
    \A i \in Tasks : Stepped(i) => CrossedIn(events[i]) \cap PrevPassed(i) = {}

\* C1 amended: a step that does not emit start emits no threshold_cross for a
\* threshold in the previous state's passed_thresholds; a step that emits start
\* re-evaluates every threshold against the emptied list.
C1_NoCrossOfPassedUnlessStart ==
    \A i \in Tasks :
        Stepped(i) =>
            IF HasStart(events[i])
            THEN CrossedIn(events[i]) = IF ObsLive(i) THEN Met(i) ELSE {}
            ELSE CrossedIn(events[i]) \cap PrevPassed(i) = {}

C1_Witness ==
    \E i \in Tasks :
        /\ Stepped(i) /\ ~HasStart(events[i]) /\ ObsLive(i)
        /\ PrevPassed(i) \cap Met(i) # {}
        /\ CrossedIn(events[i]) # {}

\* C2: within one live session every configured threshold has at most one
\* threshold_cross, and has it from the first step on whose live observation
\* reports at least that many viewers.
C2_OneCrossPerSession ==
    \A c \in ChannelIds : \A th \in 1 .. MaxThreshold :
        /\ session[c].crosses[th] <= 1
        /\ session[c].crosses[th] = 1 <=> th \in session[c].reached

C2_Witness ==
    \E i \in Tasks :
        /\ Stepped(i) /\ PrevLive(i) /\ ObsLive(i)
        /\ Met(i) \cap PrevPassed(i) # {}
        /\ CrossedIn(events[i]) = {}
        /\ \E th \in Met(i) : session[cfg.streamers[i].channel_id].crosses[th] = 1

\* C3: detection is idempotent: a second step from the next state with the
\* same observation emits no events.
C3_Idempotent ==
    \A i \in Tasks :
        Stepped(i) => DetectEvents(current[i], new_state[i], thresholds) = <<>>

C3_Witness ==
    \E i \in Tasks :
        /\ Stepped(i) /\ Len(events[i]) >= 3
        /\ HasType(events[i], "title_change") /\ HasType(events[i], "threshold_cross")

\* C4: a step that emits start empties passed_thresholds before the thresholds
\* are evaluated: the next passed_thresholds is exactly the configured
\* thresholds the observed viewers meet, and the events are start followed by
\* one threshold_cross per such threshold.
C4_StartResets ==
    \A i \in Tasks :
        (Stepped(i) /\ HasStart(events[i])) =>
            /\ Range(new_state[i].passed_thresholds) = Met(i)
            /\ new_state[i].passed_thresholds = SortedSet(Met(i))
            /\ events[i] = <<[type |-> "start"]>> \o
                             [k \in 1 .. Cardinality(Met(i)) |-> Cross(SortedSet(Met(i))[k])]

C4_Witness ==
    \E i \in Tasks :
        /\ Stepped(i) /\ HasStart(events[i])
        /\ Cardinality(PrevPassed(i)) >= 2
        /\ Cardinality(Met(i)) = 1

\* position of an event type in the fixed order
Rank(ev) ==
    CASE ev.type \in {"start", "end"} -> 1
      [] ev.type = "title_change" -> 2
      [] ev.type = "category_change" -> 3
      [] OTHER -> 4

\* the number of messages task i has posted
Posted(i) ==
    CASE pc[i] = "send" -> idx[i] - 1
      [] pc[i] = "sleep" -> idx[i]
      [] OTHER -> IF Truthy(cfg.streamers[i].webhook_url) THEN Len(events[i]) ELSE 0

\* C5: the events of a step are at most one liveness event, then at most one
\* title_change, then at most one category_change, then threshold_cross events
\* in strictly ascending order; the messages are posted in this order.
C5_EventOrder ==
    \A i \in Tasks :
        Stepped(i) =>
            /\ \A k, l \in DOMAIN events[i] :
                 k < l =>
                    \/ Rank(events[i][k]) < Rank(events[i][l])
                    \/ /\ events[i][k].type = "threshold_cross"
                       /\ events[i][l].type = "threshold_cross"
                       /\ events[i][k].threshold < events[i][l].threshold
            /\ sent[i] = [k \in 1 .. Posted(i) |->
                            format_discord_message(events[i][k], current[i])]

C5_Witness ==
    \E i \in Tasks :
        /\ pc[i] = "persist" /\ Len(sent[i]) >= 4
        /\ HasType(events[i], "title_change") /\ HasType(events[i], "category_change")
        /\ Cardinality(CrossedIn(events[i])) >= 2

C7_OfflineNoOp ==
    \A i \in Tasks :
        (Stepped(i) /\ ~PrevLive(i) /\ ~ObsLive(i)) =>
            /\ events[i] = <<>>
            /\ new_state[i].is_live = GetBool(last[i], "is_live")
            /\ new_state[i].title = GetStr(last[i], "title")
            /\ new_state[i].category = GetStr(last[i], "category")
            /\ new_state[i].viewers = GetInt(last[i], "viewers")
            /\ new_state[i].passed_thresholds = GetList(last[i], "passed_thresholds")

\* C7 amended: a step from not live to not live emits nothing and leaves
\* is_live and passed_thresholds as they were; title and category become the
\* observed ones when the observation carries non-empty ones, and viewers
\* becomes the observed count.
C7_OfflineNoEvents ==
    \A i \in Tasks :
        (Stepped(i) /\ ~PrevLive(i) /\ ~ObsLive(i)) =>
            /\ events[i] = <<>>
            /\ new_state[i].is_live = GetBool(last[i], "is_live")
            /\ new_state[i].passed_thresholds = GetList(last[i], "passed_thresholds")
            /\ new_state[i].title =
                 IF Truthy(GetStr(current[i], "title"))
                 THEN current[i].title ELSE GetStr(last[i], "title")
            /\ new_state[i].category =
                 IF Truthy(GetStr(current[i], "category"))
                 THEN current[i].category ELSE GetStr(last[i], "category")
            /\ new_state[i].viewers = GetInt(current[i], "viewers")

C7_Witness ==
    \E i \in Tasks :
        /\ Stepped(i) /\ ~PrevLive(i) /\ ~ObsLive(i)
        /\ PrevPassed(i) # {}
        /\ GetInt(last[i], "viewers") # NoneInt
        /\ GetInt(current[i], "viewers") = NoneInt
        /\ Truthy(GetStr(current[i], "title"))
        /\ current[i].title # GetStr(last[i], "title")

\* C8 as stated: a step from live to not live emits exactly end, and the next
\* state is not live with the title, category and passed_thresholds of the
\* previous state.
C8_EndKeepsFields ==
    \A i \in Tasks :
        (Stepped(i) /\ PrevLive(i) /\ ~ObsLive(i)) =>
            /\ events[i] = <<[type |-> "end"]>>
            /\ new_state[i].is_live = FALSE
            /\ new_state[i].title = GetStr(last[i], "title")
            /\ new_state[i].category = GetStr(last[i], "category")
            /\ new_state[i].passed_thresholds = GetList(last[i], "passed_thresholds")

\* C8 amended: a step from live to not live emits exactly end, the next state is
\* not live and keeps passed_thresholds; it keeps the title and category unless
\* the observation carries non-empty ones, which replace them.
C8_EndKeepsPassed ==
    \A i \in Tasks :
        (Stepped(i) /\ PrevLive(i) /\ ~ObsLive(i)) =>
            /\ events[i] = <<[type |-> "end"]>>
            /\ new_state[i].is_live = FALSE
            /\ new_state[i].passed_thresholds = GetList(last[i], "passed_thresholds")
            /\ new_state[i].title =
                 IF Truthy(GetStr(current[i], "title"))
                 THEN current[i].title ELSE GetStr(last[i], "title")
            /\ new_state[i].category =
                 IF Truthy(GetStr(current[i], "category"))
                 THEN current[i].category ELSE GetStr(last[i], "category")

C8_Witness ==
    \E i \in Tasks :
        /\ Stepped(i) /\ PrevLive(i) /\ ~ObsLive(i)
        /\ PrevPassed(i) # {}
        /\ Truthy(GetStr(last[i], "title"))
        /\ GetStr(current[i], "title") = None

\* C9 as stated: title_change (category_change) is emitted exactly when the
\* stream was and is live and the observed title (category) is present and
\* differs from the previous one; the next state then has the observed value;
\* a step that emits start emits neither.
C9_ChangeWhenPresent ==
    \A i \in Tasks :
        Stepped(i) =>
            /\ HasType(events[i], "title_change") <=>
                 (/\ PrevLive(i) /\ ObsLive(i)
                  /\ GetStr(current[i], "title") # None
                  /\ GetStr(current[i], "title") # GetStr(last[i], "title"))
            /\ HasType(events[i], "category_change") <=>
                 (/\ PrevLive(i) /\ ObsLive(i)
                  /\ GetStr(current[i], "category") # None
                  /\ GetStr(current[i], "category") # GetStr(last[i], "category"))

\* C9 amended: title_change (category_change) is emitted exactly when the stream
\* was and is live and the observed title (category) is present, not the empty
\* string, and differs from the previous one; the next state then has the
\* observed value; a step that emits start emits neither.
C9_ChangeWhenNonEmpty ==
    \A i \in Tasks :
        Stepped(i) =>
            /\ HasType(events[i], "title_change") <=>
                 (/\ PrevLive(i) /\ ObsLive(i)
                  /\ GetStr(current[i], "title") \notin {None, ""}
                  /\ GetStr(current[i], "title") # GetStr(last[i], "title"))
            /\ HasType(events[i], "category_change") <=>
                 (/\ PrevLive(i) /\ ObsLive(i)
                  /\ GetStr(current[i], "category") \notin {None, ""}
                  /\ GetStr(current[i], "category") # GetStr(last[i], "category"))
            /\ HasType(events[i], "title_change") => new_state[i].title = current[i].title
            /\ HasType(events[i], "category_change") =>
                 new_state[i].category = current[i].category
            /\ HasStart(events[i]) =>
                 ~(HasType(events[i], "title_change") \/ HasType(events[i], "category_change"))

C9_Witness ==
    \E i \in Tasks :
        /\ Stepped(i)
        /\ events[i] = <<[type |-> "title_change"]>>
        /\ Truthy(GetStr(last[i], "title"))
        /\ GetStr(current[i], "category") = ""
        /\ Truthy(GetStr(last[i], "category"))

\* C10 as stated: the next title (category) is the observed one when the
\* observation has one, else the previous one; the next viewers is the observed
\* count, null when the observation has none.
C10_CarryWhenPresent ==
    \A i \in Tasks :
        Stepped(i) =>
            /\ new_state[i].title =
                 IF GetStr(current[i], "title") # None
                 THEN current[i].title ELSE GetStr(last[i], "title")
            /\ new_state[i].category =
                 IF GetStr(current[i], "category") # None
                 THEN current[i].category ELSE GetStr(last[i], "category")
            /\ new_state[i].viewers = GetInt(current[i], "viewers")

\* C10 amended: the next title (category) is the observed one when the
\* observation has one that is not the empty string, else the previous one, so a
\* known title (category) never reverts to null or empty; the next viewers is
\* the observed count, null when the observation has none.
C10_CarryWhenNonEmpty ==
    \A i \in Tasks :
        Stepped(i) =>
            /\ new_state[i].title =
                 IF GetStr(current[i], "title") \notin {None, ""}
                 THEN current[i].title ELSE GetStr(last[i], "title")
            /\ new_state[i].category =
                 IF GetStr(current[i], "category") \notin {None, ""}
                 THEN current[i].category ELSE GetStr(last[i], "category")
            /\ Truthy(GetStr(last[i], "title")) => Truthy(new_state[i].title)
            /\ Truthy(GetStr(last[i], "category")) => Truthy(new_state[i].category)
            /\ new_state[i].viewers = GetInt(current[i], "viewers")

C10_Witness ==
    \E i \in Tasks :
        /\ Stepped(i) /\ ObsLive(i) /\ PrevLive(i)
        /\ GetStr(current[i], "title") = None
        /\ GetStr(current[i], "category") = ""
        /\ new_state[i].title = "A"
        /\ new_state[i].category = "X"
        /\ GetInt(last[i], "viewers") # NoneInt
        /\ new_state[i].viewers = NoneInt

\* C11: within a live session passed_thresholds only grows: on every step that
\* emits no start, the previous passed_thresholds is a subset of the next one.
C11_PassedGrows ==
    \A i \in Tasks :
        (Stepped(i) /\ ~HasStart(events[i])) =>
            PrevPassed(i) \subseteq Range(new_state[i].passed_thresholds)

C11_Witness ==
    \E i \in Tasks :
        /\ Stepped(i) /\ ~HasStart(events[i])
        /\ PrevPassed(i) # {}
        /\ PrevPassed(i) # Range(new_state[i].passed_thresholds)
        /\ PrevPassed(i) \subseteq Range(new_state[i].passed_thresholds)

\* C12 as stated: while the observation of a channel stays the same from one
\* invocation to the next, no message an earlier invocation has posted is
\* posted again, wherever an earlier invocation was killed.
C12_NoRepeatedMessage ==
    \A i \in Tasks : Range(sent[i]) \cap earlier.msgs = {}

AllDone == \A i \in Tasks : pc[i] = "done"

\* C13: an invocation replaces the store at most once and only when every task
\* has finished; the store holds the complete contents it had when the
\* invocation started or the complete final map, also when the invocation is
\* killed.
C13_StoreWhole ==
    /\ writes <= 1
    /\ writes = 1 => AllDone
    /\ file = preRun \/ (AllDone /\ file = state)

C13_Witness ==
    /\ mpc = "exited" /\ writes = 1
    /\ file # preRun /\ preRun # EmptyDict
    /\ "ch1" \in DOMAIN preRun /\ "gone" \in DOMAIN preRun

ConfiguredIds == {cfg.streamers[i].channel_id : i \in Tasks}

\* C19: the store never loses a key, and an entry whose key is not the
\* channel_id of a configured streamer keeps its value.
C19_StaleKept ==
    [][/\ DOMAIN file \subseteq DOMAIN file'
       /\ \A k \in DOMAIN file \ ConfiguredIds : file'[k] = file[k]]_vars

C19_Witness ==
    /\ mpc = "exited" /\ writes = 1 /\ file # preRun
    /\ DOMAIN file = {"gone", "ch1"}
    /\ file["gone"] = StaleEntry

\* C20: a total fetch failure looks like the channel being offline: on a live
\* channel it emits end and stores is_live = false; the start that follows such
\* an end empties passed_thresholds and emits a threshold_cross again for every
\* threshold met, also for those notified before the failure.
C20_FailureEndsSession ==
    \A i \in Tasks :
        Stepped(i) =>
            /\ (current[i] = DefaultObs /\ PrevLive(i)) =>
                 /\ events[i] = <<[type |-> "end"]>>
                 /\ new_state[i].is_live = FALSE
                 /\ failedEnd[cfg.streamers[i].channel_id]
            /\ (HasStart(events[i]) /\ failedEnd[cfg.streamers[i].channel_id]) =>
                 /\ PrevPassed(i) \cap Met(i) \subseteq CrossedIn(events[i])
                 /\ Range(new_state[i].passed_thresholds) = Met(i)

C20_Witness ==
    \E i \in Tasks :
        /\ Stepped(i) /\ HasStart(events[i])
        /\ failedEnd[cfg.streamers[i].channel_id]
        /\ PrevPassed(i) \cap CrossedIn(events[i]) # {}

\* the entry of the store as loaded at the start of the invocation
Loaded(key) == IF key \in DOMAIN preRun THEN preRun[key] ELSE EmptyDict

\* C14 as stated: the tasks of an invocation are independent, also when two
\* streamers have the same channel_id: the events and the next state of a task
\* are those detected from its own observation and the store as loaded, as in
\* the interleaving where every fetch completes before any task ends.
C14_TasksIndependent ==
    \A i \in Tasks :
        Stepped(i) =>
            /\ events[i] =
                 DetectEvents(current[i], Loaded(cfg.streamers[i].channel_id), thresholds)
            /\ new_state[i] =
                 DetectState(current[i], Loaded(cfg.streamers[i].channel_id), thresholds)

\* C15 as stated: two successive posts to the same webhook are at least the
\* delay apart, also when several streamers have the same webhook_url.
C15_PostsSpaced ==
    \A h \in RunWebhooks : minGap[h] = NoneInt \/ minGap[h] >= SEND_DELAY

\* C17: a failed post is not repeated and the loop goes on: every event of a
\* task is posted once, in order, whatever the outcomes, of this task and of the
\* other; the state the task stores is the detected one.
C17_FailedPostSkipped ==
    \A i \in Tasks :
        /\ Len(outcomes[i]) = Len(sent[i])
        /\ Stepped(i) =>
             /\ sent[i] = [k \in 1 .. Posted(i) |->
                             format_discord_message(events[i][k], current[i])]
             /\ new_state[i] = DetectState(current[i], last[i], thresholds)
        /\ pc[i] = "done" =>
             \A k \in DOMAIN outcomes[i] : outcomes[i][k] \in PostOutcomes

C17_Witness ==
    \E i, j \in Tasks :
        /\ i # j
        /\ pc[i] = "persist" /\ Len(events[i]) = 2
        /\ outcomes[i] = <<"http_error", "exception">>
        /\ pc[j] = "persist" /\ Len(events[j]) = 2
        /\ outcomes[j] = <<"ok", "ok">>

\* C18: without a configuration the invocation ends with status 1 before any
\* fetch, post or write of the store; with one it ends, whatever fetches and
\* posts fail, with status 0 and the store written.
C18_ExitStatus ==
    /\ [](mpc = "exited" =>
            IF cfg \in {MissingConfig, EmptyDict}
            THEN /\ exitCode = 1
                 /\ writes = 0 /\ file = preRun
                 /\ \A i \in Tasks : pc[i] = "new" /\ sent[i] = <<>>
            ELSE /\ exitCode = 0
                 /\ writes = 1 /\ file = state
                 /\ \A i \in Tasks : pc[i] = "done")
    /\ <>(mpc = "exited")

C18_Witness ==
    /\ mpc = "exited" /\ exitCode = 0 /\ writes = 1
    /\ \E i \in Tasks : "exception" \in Range(outcomes[i])
    /\ \E i \in Tasks : "http_error" \in Range(outcomes[i])
    /\ "ch1" \in DOMAIN preRun /\ file["ch1"].is_live = FALSE

\* an answer with status 200 and a body that parses
Usable(r) == r.kind = "http" /\ r.code = 200 /\ r.parse_ok

\* C16: the endpoints are asked in the order live-detail, channel, live-status;
\* the observation returned is built from the first usable answer and no
\* request follows it; when none is usable the default observation is returned.
C16_FirstSuccessWins ==
    /\ tried = SubSeq(Endpoints, 1, Len(tried))
    /\ fpc = "returned" =>
         LET answers == <<resps.live_detail, resps.channel, resps.live_status>>
             first == {k \in 1 .. 3 : Usable(answers[k]) /\ \A j \in 1 .. (k - 1) : ~Usable(answers[j])}
         IN  /\ first = {} => (tried = Endpoints /\ result = DefaultObs)
             /\ \A k \in first :
                  /\ tried = SubSeq(Endpoints, 1, k)
                  /\ "status" \in DOMAIN result
                  /\ k = 1 => result = FromLiveDetail(answers[k].content)
                  /\ k = 2 => result = FromChannel(answers[k].content)
                  /\ k = 3 => result = FromLiveStatus(answers[k].content)
                  /\ k > 1 => (result.title = None /\ result.viewers = NoneInt)

C16_Witness ==
    /\ fpc = "returned"
    /\ tried = Endpoints
    /\ resps.live_detail.code = 404
    /\ resps.channel.kind = "error"
    /\ Usable(resps.live_status)
    /\ result.is_live

====
